---- MODULE Spec2Model ----
(***************************************************************************)
(* Agentic AI pipeline: the LangGraph walk built by AgentOrchestrator      *)
(* (core/orchestrator.py), the seven agents' execute methods (agents/*.py) *)
(* over the shared PipelineState (core/state.py), and AgenticPipeline.run  *)
(* with _extract_result (core/pipeline.py).                                *)
(*                                                                         *)
(* Scores are in tenths: 7 stands for 0.7.  Lists whose content does not   *)
(* matter to control flow (actionable_items, next_steps, suggestions) are  *)
(* kept as their length; a Python list is truthy iff its length is > 0.    *)
(***************************************************************************)
EXTENDS Integers, Sequences, FiniteSets, TLC

----------------------------------------------------------------------------
(* Bounds of the exploration *)

\* Failures per run after which no further failure is explored: stage
\* invocations that end in a business failure or an escaping exception,
\* and Monitor recording calls that raise.
MaxFaults == 1

\* Calls of run() or stream() followed on one orchestrator's Monitor.
MaxRuns == 2

\* Stage executions recorded per stage name between two resets.
MaxRecords == 2

\* reset_metrics calls followed.
MaxResets == 1

\* Clock ticks followed by the traffic shifter's deployments.
MaxTicks == 6

\* Start events sent to the traffic shifter.
MaxStarts == 2

\* Failing AWS calls (ClientError) followed by the traffic shifter.
MaxAwsErrors == 1

\* Longest actionable_items / next_steps / suggestions list explored;
\* each list is explored empty and at this length.
MaxItems == 1

----------------------------------------------------------------------------
(* Python dictionaries *)

EmptyDict == [k \in {} |-> 0]

Get(d, k, default) == IF k \in DOMAIN d THEN d[k] ELSE default

Put(d, k, v) == [x \in (DOMAIN d) \cup {k} |-> IF x = k THEN v ELSE d[x]]

Merge(a, b) == [x \in (DOMAIN a) \cup (DOMAIN b) |->
                  IF x \in DOMAIN b THEN b[x] ELSE a[x]]

----------------------------------------------------------------------------
(* Program constants and input sets *)

\* Supersteps after which self.app.ainvoke raises GraphRecursionError:
\* run() passes no recursion_limit, so the compiled graph's default applies.
RecursionLimit == 25

DefaultMaxRetries == 3

DefaultMinScore == 7

PassedScore == 7

AgentNames == {"planner", "researcher", "analyzer", "synthesizer",
               "validator", "executor", "reviewer"}

END == "END"

\* Orchestrator configurations: nothing set, or max_retries set and the
\* executor disabled under agents.executor as in examples/custom_config.py.
OrchestratorConfigs ==
    {EmptyDict,
     [max_retries |-> 2, agents |-> [executor |-> [enabled |-> FALSE]]]}

\* Per-run config overrides handed to run(): none, lower, higher.
RunConfigs == {EmptyDict, [max_retries |-> 1], [max_retries |-> 3]}

\* agents.validator configuration: min_score absent or set.
ValidatorConfigs == {EmptyDict, [min_score |-> 9]}

\* overall_score values the Validator may compute.
Scores == {5, 8, 9}

None == "None"

VARIABLES
    self_config,          \* AgentOrchestrator.config
    validator_config,     \* ValidatorAgent.config
    config,               \* state["config"]
    retry_count,          \* state["retry_count"]
    intermediate_results, \* state["intermediate_results"]
    final_result,         \* state["final_result"]
    status,               \* state["status"]
    errors,               \* state["errors"], the agent named by each entry
    completed_steps,      \* state["completed_steps"]
    current_step,         \* state["current_step"]
    agent_states,         \* state["agent_states"], status per agent_id
    messages,             \* state["messages"], the agent_type of each entry
    node,                 \* graph node the walk executes next
    pc,                   \* where AgenticPipeline.run stands
    visits,               \* supersteps of the walk so far
    result,               \* what AgenticPipeline.run returned
    last_decision,        \* history: latest value of _route_after_validation
    researcher_returns,   \* history: times the Router returned "researcher"
    attempt,              \* history: latest Validator execution
    defects,              \* history: exceptions that escaped an agent
    faults,               \* history: failed stage invocations
    monitor_failures,     \* history: Monitor recording calls that raised
    running_seen,         \* history: entries RUNNING once the latest
                          \* execute had called _log_execution_start
    metrics,              \* PipelineMonitor.metrics
    calls,                \* the run()/stream() calls made on the
                          \* orchestrator, by pipeline_id
    resets,               \* history: reset_metrics calls
    listener,             \* the load balancer listener's default action
    table,                \* the items of the canary-state DynamoDB table
    table_key,            \* the table's primary key attributes
    now,                  \* time.time(), in seconds
    alarm,                \* some alarm of ALARM_NAMES is in state ALARM
    auto_rollback,        \* AUTO_ROLLBACK_ENABLED
    response,             \* what the last lambda_handler call returned
    aws_errors,           \* history: AWS calls that raised ClientError
    starts                \* history: start events sent

\* What the walk of one run reads and writes, the Monitor aside.
walkVars == <<self_config, validator_config, config,
              retry_count, intermediate_results, final_result, status,
              errors, completed_steps, current_step, agent_states, messages,
              node, pc, visits, result, last_decision, researcher_returns,
              attempt, defects, faults, monitor_failures, running_seen>>

\* What no step of the walk touches.
canaryVars == <<listener, table, table_key, now, alarm, auto_rollback,
                response, aws_errors, starts>>

outsideWalk == <<calls, resets, canaryVars>>

vars == <<walkVars, metrics, outsideWalk>>

cfgVars == <<self_config, validator_config, config>>

NoAttempt == [ran |-> FALSE, score |-> 0, retry_count |-> 0]

NoResult == [returned |-> FALSE, success |-> FALSE, agents_executed |-> 0,
             errors |-> 0, retry_count |-> 0]

----------------------------------------------------------------------------
(* PipelineMonitor with monitoring enabled, the default.  Each recording   *)
(* method is a function from the metrics before the call to the metrics    *)
(* after it; a call that raises has written nothing.                       *)

\* The value of the "agents" defaultdict for a name never recorded.
NoAgentMetrics == [executions |-> 0, successes |-> 0, failures |-> 0]

\* __init__ and reset_metrics build the same empty storage.
EmptyMetrics ==
    [pipelines |-> EmptyDict,
     agents |-> [a \in AgentNames |-> NoAgentMetrics],
     total_pipelines |-> 0,
     total_successes |-> 0,
     total_failures |-> 0]

record_pipeline_start(m, id) ==
    [m EXCEPT !.pipelines =
                  Put(m.pipelines, id,
                      [status |-> "running", end_time |-> FALSE,
                       agents |-> EmptyDict]),
              !.total_pipelines = @ + 1]

\* Nothing is recorded for a pipeline_id the storage does not hold.
record_pipeline_completion(m, id, success) ==
    IF id \in DOMAIN m.pipelines
      THEN [m EXCEPT !.pipelines[id].end_time = TRUE,
                     !.pipelines[id].status =
                         IF success THEN "success" ELSE "failed",
                     !.total_successes = IF success THEN @ + 1 ELSE @,
                     !.total_failures = IF success THEN @ ELSE @ + 1]
      ELSE m

\* The per-pipeline record of an agent: set by record_agent_start when the
\* pipeline is held, changed by a later record only when it exists.
AgentRecord(m, agent_name, id, agent_status) ==
    IF /\ id \in DOMAIN m.pipelines
       /\ \/ agent_status = "running"
          \/ agent_name \in DOMAIN m.pipelines[id].agents
      THEN [m EXCEPT !.pipelines[id].agents =
                         Put(@, agent_name, agent_status)]
      ELSE m

record_agent_start(m, agent_name, id) ==
    [AgentRecord(m, agent_name, id, "running")
        EXCEPT !.agents[agent_name].executions = @ + 1]

record_agent_completion(m, agent_name, id) ==
    [AgentRecord(m, agent_name, id, "completed")
        EXCEPT !.agents[agent_name].successes = @ + 1]

record_agent_error(m, agent_name, id) ==
    [AgentRecord(m, agent_name, id, "failed")
        EXCEPT !.agents[agent_name].failures = @ + 1]

\* state["pipeline_id"] of the run the walk belongs to.
pipeline_id == 1

PipelineIds == 1..MaxRuns

\* A pipeline_id no call has been made with.
NoCall == [method |-> "none", stage |-> None, ended |-> FALSE]

\* The walk's own call of run() is the only one.
OneRunCalled ==
    /\ calls = [id \in PipelineIds |->
                  IF id = pipeline_id
                    THEN [method |-> "run", stage |-> None, ended |-> FALSE]
                    ELSE NoCall]
    /\ resets = 0

----------------------------------------------------------------------------
(* create_initial_state, as called by AgentOrchestrator.run.  The walk is  *)
(* followed from the graph's entry point and from the head of the          *)
(* research sub-chain, the node the Router's "researcher" edge leads to.   *)

----------------------------------------------------------------------------
(* terraform/modules/canary-deployment/lambda/traffic-shifter.py: the
   Lambda's environment and the AWS resources it works on *)

\* CANARY_STAGES: the canary's share of the traffic, stage by stage.
CANARY_STAGES == <<10, 25, 50>>

STAGE_DURATION_MINUTES == 1

\* Seconds between two readings of the clock.
TickSeconds == 30

DeploymentIds == {"d1"}

\* The listener's default action as shift_traffic writes it: a weighted
\* forward to the canary and production target groups with stickiness.
Forward(canary_percentage) ==
    [canary |-> canary_percentage,
     production |-> 100 - canary_percentage,
     stickiness |-> TRUE]

\* Default actions found on the listener before any deployment: a plain
\* forward to production, or what an earlier rollback wrote.
ListenerConfigs ==
    {[canary |-> 0, production |-> 100, stickiness |-> FALSE],
     Forward(0)}

\* The table's key schema is declared with the table, outside the Lambda:
\* put_item writes deployment_id and timestamp, either of which may be part
\* of the key.
TableKeys == {"deployment_id", "deployment_id+timestamp"}

NoResponse == [action |-> "none", status |-> "none"]

\* The Lambda's resources while no deployment is followed.
NoDeployment ==
    /\ listener = [canary |-> 0, production |-> 100, stickiness |-> FALSE]
    /\ table = {}
    /\ table_key = "deployment_id"
    /\ now = 0
    /\ alarm = FALSE
    /\ auto_rollback = TRUE
    /\ response = NoResponse
    /\ aws_errors = 0
    /\ starts = 0

----------------------------------------------------------------------------

Init ==
    /\ self_config \in OrchestratorConfigs
    /\ validator_config \in ValidatorConfigs
    /\ \E c \in RunConfigs : config = Merge(self_config, c)
    /\ retry_count = 0
    /\ intermediate_results = EmptyDict
    /\ final_result = None
    /\ status = "pending"
    /\ errors = <<>>
    /\ completed_steps = <<>>
    /\ current_step = "start"
    /\ agent_states = [a \in AgentNames |-> "absent"]
    /\ messages = <<>>
    /\ node \in {"planner", "researcher"}
    /\ pc = "walking"
    /\ visits = 0
    /\ result = NoResult
    /\ last_decision = None
    /\ researcher_returns = 0
    /\ attempt = NoAttempt
    /\ defects = 0
    /\ faults = 0
    /\ monitor_failures = 0
    /\ running_seen = 0
    /\ metrics = record_pipeline_start(EmptyMetrics, pipeline_id)
    /\ OneRunCalled
    /\ NoDeployment

----------------------------------------------------------------------------
(* BaseAgent: the bracketing every execute performs *)

\* _log_execution_start: update_agent_state(..., RUNNING), then, on the
\* success path, update_agent_state(..., COMPLETED) and
\* _log_execution_end(success=True).  agent_id is fixed per agent object,
\* so every invocation writes the same agent_states entry.
Completed(a) == [agent_states EXCEPT ![a] = "completed"]

\* The entry agent_node's except branch appends to errors when it is
\* entered after execute has returned, because record_agent_completion
\* raised inside the try block.
WrapperErrors(a) ==
    IF monitor_failures' > monitor_failures THEN <<a>> ELSE <<>>

\* Mutant of ExecuteFailed: the error is recorded but the agent's entry is
\* left RUNNING.
ExecuteFailed_leaves_running(a) ==
    /\ faults + monitor_failures < MaxFaults
    /\ faults' = faults + 1
    /\ errors' = Append(errors, a) \o WrapperErrors(a)
    /\ agent_states' = [agent_states EXCEPT ![a] = "running"]
    /\ UNCHANGED <<intermediate_results, retry_count, final_result, messages>>

\* except branch of execute: the collaborator call (_invoke_llm) raised
\* before anything was written; the agent records the error itself and
\* returns the state.
ExecuteFailed(a) ==
    /\ faults + monitor_failures < MaxFaults
    /\ faults' = faults + 1
    /\ errors' = Append(errors, a) \o WrapperErrors(a)
    /\ agent_states' = [agent_states EXCEPT ![a] = "failed"]
    /\ UNCHANGED <<intermediate_results, retry_count, final_result, messages>>

\* Mutant of ExecuteWrote: the agent's message replaces the list instead
\* of being appended to it.
ExecuteWrote_replaces_messages(a, key, value) ==
    /\ intermediate_results' = Put(intermediate_results, key, value)
    /\ messages' = <<a>>
    /\ agent_states' = Completed(a)
    /\ errors' = errors \o WrapperErrors(a)
    /\ UNCHANGED <<retry_count, final_result, faults>>

\* try body of an agent that writes one key, adds its message and
\* completes.
ExecuteWrote(a, key, value) ==
    /\ intermediate_results' = Put(intermediate_results, key, value)
    /\ messages' = Append(messages, a)
    /\ agent_states' = Completed(a)
    /\ errors' = errors \o WrapperErrors(a)
    /\ UNCHANGED <<retry_count, final_result, faults>>

\* _get_context_from_previous_agents: only COMPLETED agents contribute.
InContext(a) == agent_states[a] = "completed"

----------------------------------------------------------------------------
(* The agents' execute methods *)

PlannerExecute ==
    /\ \/ ExecuteWrote("planner", "execution_plan", TRUE)
       \/ ExecuteFailed("planner")
    /\ UNCHANGED attempt

ResearcherExecute ==
    /\ \/ ExecuteWrote("researcher", "research_findings", TRUE)
       \/ ExecuteFailed("researcher")
    /\ UNCHANGED attempt

AnalyzerExecute ==
    /\ \/ ExecuteWrote("analyzer", "analysis", TRUE)
       \/ ExecuteFailed("analyzer")
    /\ UNCHANGED attempt

\* _structure_synthesis: actionable_items and next_steps come from the
\* collaborator's text.
SynthesizerExecute ==
    /\ \/ \E ai \in {0, MaxItems}, ns \in {0, MaxItems} :
             ExecuteWrote("synthesizer", "synthesis",
                          [actionable_items |-> ai, next_steps |-> ns])
       \/ ExecuteFailed("synthesizer")
    /\ UNCHANGED attempt

\* _structure_validation: `passed` is fixed against 0.7.
StructureValidation(score, suggestions) ==
    [overall_score |-> score,
     passed |-> score >= PassedScore,
     suggestions |-> suggestions]

\* ValidatorAgent.execute, line 55: the agent's own verdict.
ValidatorPassed(score) ==
    score >= Get(validator_config, "min_score", DefaultMinScore)

\* The bound the Validator reads: state["config"].get("max_retries", 3).
ValidatorMaxRetries == Get(config, "max_retries", DefaultMaxRetries)

\* ValidatorAgent.execute, line 74.
ValidatorRetries(score) ==
    /\ ~ValidatorPassed(score)
    /\ retry_count < ValidatorMaxRetries

\* Mutant of ValidatorExecute: the retry is counted but needs_retry is
\* never written.
ValidatorExecute_forgets_needs_retry ==
    \/ \E score \in Scores, sg \in {0, MaxItems} :
         /\ retry_count' = IF ValidatorRetries(score) THEN retry_count + 1
                                                      ELSE retry_count
         /\ intermediate_results' =
                Put(intermediate_results, "validation",
                    StructureValidation(score, sg))
         /\ agent_states' = Completed("validator")
         /\ attempt' = [ran |-> TRUE, score |-> score,
                        retry_count |-> retry_count]
         /\ messages' = Append(messages, "validator")
         /\ errors' = errors \o WrapperErrors("validator")
         /\ UNCHANGED <<final_result, faults>>
    \/ /\ ExecuteFailed("validator")
       /\ attempt' = NoAttempt

ValidatorExecute ==
    \/ \E score \in Scores, sg \in {0, MaxItems} :
         LET validation == StructureValidation(score, sg)
             written == Put(intermediate_results, "validation", validation)
         IN  /\ IF ValidatorRetries(score)
                  THEN /\ retry_count' = retry_count + 1
                       /\ intermediate_results' =
                              Put(written, "needs_retry", TRUE)
                  ELSE /\ retry_count' = retry_count
                       /\ intermediate_results' = written
             /\ agent_states' = Completed("validator")
             /\ attempt' = [ran |-> TRUE, score |-> score,
                            retry_count |-> retry_count]
             /\ messages' = Append(messages, "validator")
             /\ errors' = errors \o WrapperErrors("validator")
             /\ UNCHANGED <<final_result, faults>>
    \/ /\ ExecuteFailed("validator")
       /\ attempt' = NoAttempt

\* _initialize_agents: the configuration handed to ExecutorAgent.
ExecutorConfig ==
    Get(Get(self_config, "agents", EmptyDict), "executor", EmptyDict)

\* _identify_actions: one action per actionable item of the synthesis and
\* per suggestion of the validation found in the context.
IdentifiedActions ==
    (IF InContext("synthesizer")
       THEN Get(intermediate_results, "synthesis",
                [actionable_items |-> 0, next_steps |-> 0]).actionable_items
       ELSE 0)
    +
    (IF InContext("validator")
       THEN Get(intermediate_results, "validation",
                StructureValidation(0, 0)).suggestions
       ELSE 0)

\* Mutant of ExecutorExecute: the no-actions path returns without recording
\* SKIPPED, leaving the entry as _log_execution_start set it.
ExecutorExecute_skip_leaves_running ==
    /\ IF IdentifiedActions = 0
         THEN /\ intermediate_results' =
                     Put(intermediate_results, "execution", "skipped")
              /\ agent_states' = [agent_states EXCEPT ![("executor")] = "running"]
              /\ messages' = messages
         ELSE /\ intermediate_results' =
                     Put(intermediate_results, "execution", "executed")
              /\ agent_states' = Completed("executor")
              /\ messages' = Append(messages, "executor")
    /\ errors' = errors \o WrapperErrors("executor")
    /\ UNCHANGED <<retry_count, final_result, faults, attempt>>

\* ExecutorAgent.execute: without actions it records "skipped" and returns
\* early, adding no message; _execute_actions catches the failure of every
\* single action.
ExecutorExecute ==
    /\ IF IdentifiedActions = 0
         THEN /\ intermediate_results' =
                     Put(intermediate_results, "execution", "skipped")
              /\ agent_states' = [agent_states EXCEPT ![("executor")] = "skipped"]
              /\ messages' = messages
         ELSE /\ intermediate_results' =
                     Put(intermediate_results, "execution", "executed")
              /\ agent_states' = Completed("executor")
              /\ messages' = Append(messages, "executor")
    /\ errors' = errors \o WrapperErrors("executor")
    /\ UNCHANGED <<retry_count, final_result, faults, attempt>>

\* ReviewerAgent.execute: the only writer of final_result.
ReviewerExecute ==
    /\ \/ /\ intermediate_results' = Put(intermediate_results, "review", TRUE)
          /\ final_result' = "final_result"
          /\ agent_states' = Completed("reviewer")
          /\ messages' = Append(messages, "reviewer")
          /\ errors' = errors \o WrapperErrors("reviewer")
          /\ UNCHANGED <<retry_count, faults>>
       \/ ExecuteFailed("reviewer")
    /\ UNCHANGED attempt

Execute(agent_name) ==
    CASE agent_name = "planner"     -> PlannerExecute
      [] agent_name = "researcher"  -> ResearcherExecute
      [] agent_name = "analyzer"    -> AnalyzerExecute
      [] agent_name = "synthesizer" -> SynthesizerExecute
      [] agent_name = "validator"   -> ValidatorExecute
      [] agent_name = "executor"    -> ExecutorExecute
      [] agent_name = "reviewer"    -> ReviewerExecute

----------------------------------------------------------------------------
(* AgentOrchestrator._build_graph: the static edges *)

Successor(n) ==
    CASE n = "planner"     -> "router"
      [] n = "researcher"  -> "analyzer"
      [] n = "analyzer"    -> "synthesizer"
      [] n = "synthesizer" -> "validator"
      [] n = "validator"   -> "router"
      [] n = "executor"    -> "reviewer"
      [] n = "reviewer"    -> END

\* _create_agent_node.agent_node.  When execute returns, the wrapper stamps
\* current_step and completed_steps; when an exception escapes execute
\* (the agent had marked itself RUNNING), the wrapper records it, sets the
\* run FAILED and returns the state, so the graph follows the node's edge
\* as after any other return.  The Monitor's recording calls are made
\* without a guard of their own: record_agent_start stands before the try
\* block, record_agent_completion inside it, record_agent_error inside the
\* except branch.  An exception that leaves agent_node leaves ainvoke and
\* run() as well.
Running == {a \in AgentNames : agent_states[a] = "running"}

agent_node(agent_name) ==
    /\ pc = "walking"
    /\ node = agent_name
    /\ visits < RecursionLimit
    /\ \/ \* execute returned, every recording call returned
          /\ monitor_failures' = monitor_failures
          /\ running_seen' = Cardinality(Running \cup {agent_name})
          /\ metrics' =
                record_agent_completion(
                    record_agent_start(metrics, agent_name, pipeline_id),
                    agent_name, pipeline_id)
          /\ Execute(agent_name)
          /\ current_step' = agent_name
          /\ completed_steps' = Append(completed_steps, agent_name)
          /\ node' = Successor(agent_name)
          /\ visits' = visits + 1
          /\ UNCHANGED <<status, defects, pc>>
       \/ \* an exception escaped execute, record_agent_error returned
          /\ faults + monitor_failures < MaxFaults
          /\ faults' = faults + 1
          /\ defects' = defects + 1
          /\ agent_states' = [agent_states EXCEPT ![agent_name] = "running"]
          /\ running_seen' = Cardinality(Running \cup {agent_name})
          /\ metrics' =
                record_agent_error(
                    record_agent_start(metrics, agent_name, pipeline_id),
                    agent_name, pipeline_id)
          /\ errors' = Append(errors, agent_name)
          /\ status' = "failed"
          /\ node' = Successor(agent_name)
          /\ visits' = visits + 1
          /\ UNCHANGED <<intermediate_results, retry_count, final_result,
                         attempt, current_step, completed_steps, messages,
                         monitor_failures, pc>>
       \/ \* record_agent_start raised: nothing was executed, run()'s
          \* except branch records the pipeline as failed
          /\ faults + monitor_failures < MaxFaults
          /\ monitor_failures' = monitor_failures + 1
          /\ metrics' = record_pipeline_completion(metrics, pipeline_id, FALSE)
          /\ pc' = "raised"
          /\ UNCHANGED <<intermediate_results, retry_count, final_result,
                         attempt, current_step, completed_steps, messages,
                         agent_states, errors, status, faults, defects,
                         node, visits, running_seen>>
       \/ \* execute returned, record_agent_completion raised: the except
          \* branch runs on the state execute and the wrapper have written
          /\ faults + monitor_failures < MaxFaults
          /\ monitor_failures' = monitor_failures + 1
          /\ running_seen' = Cardinality(Running \cup {agent_name})
          /\ metrics' =
                record_agent_error(
                    record_agent_start(metrics, agent_name, pipeline_id),
                    agent_name, pipeline_id)
          /\ Execute(agent_name)
          /\ current_step' = agent_name
          /\ completed_steps' = Append(completed_steps, agent_name)
          /\ status' = "failed"
          /\ node' = Successor(agent_name)
          /\ visits' = visits + 1
          /\ UNCHANGED <<defects, pc>>
       \/ \* an exception escaped execute, record_agent_error raised
          /\ faults + monitor_failures < MaxFaults
          /\ faults' = faults + 1
          /\ defects' = defects + 1
          /\ monitor_failures' = monitor_failures + 1
          /\ agent_states' = [agent_states EXCEPT ![agent_name] = "running"]
          /\ running_seen' = Cardinality(Running \cup {agent_name})
          /\ metrics' =
                record_pipeline_completion(
                    record_agent_start(metrics, agent_name, pipeline_id),
                    pipeline_id, FALSE)
          /\ pc' = "raised"
          /\ UNCHANGED <<intermediate_results, retry_count, final_result,
                         attempt, current_step, completed_steps, messages,
                         errors, status, node, visits>>
    /\ UNCHANGED <<cfgVars, result, last_decision, researcher_returns>>
    /\ UNCHANGED outsideWalk

Planner == agent_node("planner")

Researcher == agent_node("researcher")

Analyzer == agent_node("analyzer")

Synthesizer == agent_node("synthesizer")

Validator == agent_node("validator")

Executor == agent_node("executor")

Reviewer == agent_node("reviewer")

----------------------------------------------------------------------------
(* The Router *)

\* The bound the Router reads: self.config.get("max_retries", 3).
RouterMaxRetries == Get(self_config, "max_retries", DefaultMaxRetries)

\* Mutant of route_after_validation: the recorded `passed` flag is not
\* consulted before routing to the executor.
route_after_validation_ignores_passed ==
    LET synthesis == Get(intermediate_results, "synthesis", EmptyDict)
    IN  IF /\ Get(intermediate_results, "needs_retry", FALSE)
           /\ retry_count < RouterMaxRetries
          THEN "researcher"
          ELSE IF \/ Get(synthesis, "actionable_items", 0) > 0
                  \/ Get(synthesis, "next_steps", 0) > 0
                 THEN "executor"
                 ELSE "end"

\* AgentOrchestrator._route_after_validation, statement by statement.
route_after_validation ==
    LET validation == Get(intermediate_results, "validation", EmptyDict)
        synthesis  == Get(intermediate_results, "synthesis", EmptyDict)
    IN  IF /\ Get(intermediate_results, "needs_retry", FALSE)
           /\ retry_count < RouterMaxRetries
          THEN "researcher"
          ELSE IF /\ Get(validation, "passed", TRUE)
                  /\ \/ Get(synthesis, "actionable_items", 0) > 0
                     \/ Get(synthesis, "next_steps", 0) > 0
                 THEN "executor"
                 ELSE "end"

Target(decision) == IF decision = "end" THEN END ELSE decision

\* Mutant of Router: the retry is counted by the Router when it takes the
\* "researcher" edge.
Router_counts_retry ==
    /\ pc = "walking"
    /\ node = "router"
    /\ visits < RecursionLimit
    /\ LET decision == route_after_validation
       IN  /\ node' = Target(decision)
           /\ last_decision' = decision
           /\ researcher_returns' =
                 IF decision = "researcher" THEN researcher_returns + 1
                                            ELSE researcher_returns
           /\ retry_count' =
                 IF decision = "researcher" THEN retry_count + 1
                                            ELSE retry_count
    /\ visits' = visits + 1
    /\ UNCHANGED <<cfgVars, intermediate_results, final_result,
                   status, errors, completed_steps, current_step,
                   agent_states, messages, pc, result, attempt, defects,
                   faults, monitor_failures, running_seen, metrics>>
    /\ UNCHANGED outsideWalk

\* The "router" node (_router returns the state untouched) followed by its
\* conditional edge.
Router ==
    /\ pc = "walking"
    /\ node = "router"
    /\ visits < RecursionLimit
    /\ LET decision == route_after_validation
       IN  /\ node' = Target(decision)
           /\ last_decision' = decision
           /\ researcher_returns' =
                 IF decision = "researcher" THEN researcher_returns + 1
                                            ELSE researcher_returns
    /\ visits' = visits + 1
    /\ UNCHANGED <<cfgVars, retry_count, intermediate_results, final_result,
                   status, errors, completed_steps, current_step,
                   agent_states, messages, pc, result, attempt, defects,
                   faults, monitor_failures, running_seen, metrics>>
    /\ UNCHANGED outsideWalk

----------------------------------------------------------------------------
(* AgentOrchestrator.run and AgenticPipeline.run around the walk *)

\* ainvoke returned: run() stamps COMPLETED, records the completion and
\* returns the final state.  record_pipeline_completion is called inside
\* the try block: when it raises, the except branch re-raises.
RunReturn ==
    /\ pc = "walking"
    /\ node = END
    /\ status' = "completed"
    /\ \/ /\ pc' = "returned"
          /\ monitor_failures' = monitor_failures
          /\ metrics' = record_pipeline_completion(metrics, pipeline_id, TRUE)
       \/ /\ faults + monitor_failures < MaxFaults
          /\ monitor_failures' = monitor_failures + 1
          /\ metrics' = record_pipeline_completion(metrics, pipeline_id, FALSE)
          /\ pc' = "raised"
    /\ UNCHANGED <<cfgVars, retry_count, intermediate_results, final_result,
                   errors, completed_steps, current_step, agent_states,
                   messages, node, visits, result, last_decision,
                   researcher_returns, attempt, defects, faults,
                   running_seen>>
    /\ UNCHANGED outsideWalk

\* ainvoke raised GraphRecursionError: run() records the failure and
\* re-raises, and so does AgenticPipeline.run.
RunRaise ==
    /\ pc = "walking"
    /\ node # END
    /\ visits = RecursionLimit
    /\ pc' = "raised"
    /\ metrics' = record_pipeline_completion(metrics, pipeline_id, FALSE)
    /\ UNCHANGED <<cfgVars, retry_count, intermediate_results, final_result,
                   status, errors, completed_steps, current_step,
                   agent_states, messages, node, visits, result,
                   last_decision, researcher_returns, attempt, defects,
                   faults, monitor_failures, running_seen>>
    /\ UNCHANGED outsideWalk

\* AgenticPipeline._extract_result on the state run() returned:
\* state.get("final_result", {}) yields None when the key holds None, and
\* None.get(...) raises.
ExtractResult ==
    /\ pc = "returned"
    /\ IF final_result = None
         THEN /\ pc' = "raised"
              /\ result' = result
         ELSE /\ pc' = "done"
              /\ result' = [returned |-> TRUE,
                            success |-> (status = "completed"),
                            agents_executed |-> Len(completed_steps),
                            errors |-> Len(errors),
                            retry_count |-> retry_count]
    /\ UNCHANGED <<cfgVars, retry_count, intermediate_results, final_result,
                   status, errors, completed_steps, current_step,
                   agent_states, messages, node, visits, last_decision,
                   researcher_returns, attempt, defects, faults,
                   monitor_failures, running_seen, metrics>>
    /\ UNCHANGED outsideWalk

Next ==
    \/ Planner
    \/ Researcher
    \/ Analyzer
    \/ Synthesizer
    \/ Validator
    \/ Executor
    \/ Reviewer
    \/ Router
    \/ RunReturn
    \/ RunRaise
    \/ ExtractResult

Spec == Init /\ [][Next]_vars

\* The event loop keeps running the walk and the code after it.
FairSpec == Spec /\ WF_vars(Next)

TypeOK ==
    /\ retry_count \in 0..(RecursionLimit + 1)
    /\ node \in AgentNames \cup {"router", END}
    /\ pc \in {"walking", "returned", "raised", "done"}
    /\ status \in {"pending", "running", "completed", "failed", "skipped"}
    /\ messages \in Seq(AgentNames)
    /\ errors \in Seq(AgentNames)
    /\ monitor_failures \in 0..MaxFaults

----------------------------------------------------------------------------
(* The routing decision alone: _route_after_validation applied to          *)
(* PipelineStates drawn from a bounded set of its inputs.                  *)

NeedsRetryDicts ==
    {EmptyDict, [needs_retry |-> TRUE], [needs_retry |-> FALSE]}

\* A validation as the Validator writes it, or one without the `passed` key.
ValidationDicts ==
    {EmptyDict}
    \cup {[validation |-> StructureValidation(s, 0)] : s \in Scores}
    \cup {[validation |-> [overall_score |-> s]] : s \in Scores}

SynthesisDicts ==
    {EmptyDict}
    \cup {[synthesis |-> [actionable_items |-> ai, next_steps |-> ns]] :
             ai \in 0..MaxItems, ns \in 0..MaxItems}

RouterInputs ==
    {Merge(Merge(a, b), c) :
        a \in NeedsRetryDicts, b \in ValidationDicts, c \in SynthesisDicts}

RouterInit ==
    /\ self_config \in OrchestratorConfigs
    /\ validator_config = EmptyDict
    /\ config = self_config
    /\ retry_count \in 0..(DefaultMaxRetries + 1)
    /\ intermediate_results \in RouterInputs
    /\ final_result = None
    /\ status = "pending"
    /\ errors = <<>>
    /\ completed_steps = <<>>
    /\ current_step = "start"
    /\ agent_states = [a \in AgentNames |-> "absent"]
    /\ messages = <<>>
    /\ node = "router"
    /\ pc = "walking"
    /\ visits = 0
    /\ result = NoResult
    /\ last_decision = None
    /\ researcher_returns = 0
    /\ attempt = NoAttempt
    /\ defects = 0
    /\ faults = 0
    /\ monitor_failures = 0
    /\ running_seen = 0
    /\ metrics = record_pipeline_start(EmptyMetrics, pipeline_id)
    /\ OneRunCalled
    /\ NoDeployment

RouterSpec == RouterInit /\ [][Router]_vars

----------------------------------------------------------------------------
(* The Monitor under several calls of run() and stream().  Every call
   makes its own RunState and shares the orchestrator's Monitor; the calls
   are coroutines, so the recording calls of one are interleaved with those
   of another at every await.  Only the recording calls are followed here:
   what a stage computes does not reach the Monitor. *)

\* Stage names the recording calls are followed for.
RecordedAgents == {"planner", "researcher"}

\* The walk's variables while no walk is followed.
NoWalk ==
    /\ self_config = EmptyDict
    /\ validator_config = EmptyDict
    /\ config = EmptyDict
    /\ retry_count = 0
    /\ intermediate_results = EmptyDict
    /\ final_result = None
    /\ status = "pending"
    /\ errors = <<>>
    /\ completed_steps = <<>>
    /\ current_step = "start"
    /\ agent_states = [a \in AgentNames |-> "absent"]
    /\ messages = <<>>
    /\ node = "planner"
    /\ pc = "walking"
    /\ visits = 0
    /\ result = NoResult
    /\ last_decision = None
    /\ researcher_returns = 0
    /\ attempt = NoAttempt
    /\ defects = 0
    /\ faults = 0
    /\ monitor_failures = 0
    /\ running_seen = 0

MonitorInit ==
    /\ NoWalk
    /\ metrics = EmptyMetrics
    /\ calls = [id \in PipelineIds |-> NoCall]
    /\ resets = 0
    /\ NoDeployment

\* The walk of call id is under way and between two stages.
BetweenStages(id) ==
    /\ calls[id].method # "none"
    /\ ~calls[id].ended
    /\ calls[id].stage = None

\* run() up to the call of ainvoke.
RunCalled(id) ==
    /\ calls[id].method = "none"
    /\ metrics' = record_pipeline_start(metrics, id)
    /\ calls' = [calls EXCEPT ![id].method = "run"]
    /\ UNCHANGED <<walkVars, resets, canaryVars>>

\* stream() up to the first chunk of astream.
StreamCalled(id) ==
    /\ calls[id].method = "none"
    /\ metrics' = record_pipeline_start(metrics, id)
    /\ calls' = [calls EXCEPT ![id].method = "stream"]
    /\ UNCHANGED <<walkVars, resets, canaryVars>>

\* agent_node up to the await of execute.
StageStarted(id, agent_name) ==
    /\ BetweenStages(id)
    /\ metrics.agents[agent_name].executions < MaxRecords
    /\ metrics' = record_agent_start(metrics, agent_name, id)
    /\ calls' = [calls EXCEPT ![id].stage = agent_name]
    /\ UNCHANGED <<walkVars, resets, canaryVars>>

\* As StageReturned, but the stage appends to a completed_steps list that
\* the followed run holds as well.
StageReturned_shares_completed_steps(id) ==
    /\ calls[id].stage # None
    /\ metrics' = record_agent_completion(metrics, calls[id].stage, id)
    /\ calls' = [calls EXCEPT ![id].stage = None]
    /\ completed_steps' = Append(completed_steps, calls[id].stage)
    /\ UNCHANGED <<cfgVars, retry_count, intermediate_results, final_result,
                   status, errors, current_step, agent_states, messages,
                   node, pc, visits, result, last_decision,
                   researcher_returns, attempt, defects, faults,
                   monitor_failures, running_seen, resets, canaryVars>>

\* agent_node after execute returned.
StageReturned(id) ==
    /\ calls[id].stage # None
    /\ metrics' = record_agent_completion(metrics, calls[id].stage, id)
    /\ calls' = [calls EXCEPT ![id].stage = None]
    /\ UNCHANGED <<walkVars, resets, canaryVars>>

\* agent_node after an exception escaped execute.
StageRaised(id) ==
    /\ calls[id].stage # None
    /\ metrics' = record_agent_error(metrics, calls[id].stage, id)
    /\ calls' = [calls EXCEPT ![id].stage = None]
    /\ UNCHANGED <<walkVars, resets, canaryVars>>

\* run() after ainvoke returned.
RunReturned(id) ==
    /\ BetweenStages(id)
    /\ calls[id].method = "run"
    /\ metrics' = record_pipeline_completion(metrics, id, TRUE)
    /\ calls' = [calls EXCEPT ![id].ended = TRUE]
    /\ UNCHANGED <<walkVars, resets, canaryVars>>

\* stream() after astream is exhausted: the loop ends and the generator
\* returns after logging.
StreamExhausted(id) ==
    /\ BetweenStages(id)
    /\ calls[id].method = "stream"
    /\ calls' = [calls EXCEPT ![id].ended = TRUE]
    /\ UNCHANGED <<walkVars, metrics, resets, canaryVars>>

\* The except branch of run() and of stream(): an exception left the graph.
WalkRaised(id) ==
    /\ BetweenStages(id)
    /\ metrics' = record_pipeline_completion(metrics, id, FALSE)
    /\ calls' = [calls EXCEPT ![id].ended = TRUE]
    /\ UNCHANGED <<walkVars, resets, canaryVars>>

\* PipelineMonitor.reset_metrics, callable at any moment.
reset_metrics ==
    /\ resets < MaxResets
    /\ metrics' = EmptyMetrics
    /\ resets' = resets + 1
    /\ UNCHANGED <<walkVars, calls, canaryVars>>

MonitorNext ==
    \/ \E id \in PipelineIds :
          \/ RunCalled(id)
          \/ StreamCalled(id)
          \/ \E agent_name \in RecordedAgents : StageStarted(id, agent_name)
          \/ StageReturned(id)
          \/ StageRaised(id)
          \/ RunReturned(id)
          \/ StreamExhausted(id)
          \/ WalkRaised(id)
    \/ reset_metrics

MonitorSpec == MonitorInit /\ [][MonitorNext]_vars

----------------------------------------------------------------------------
(* One run followed stage by stage while other calls of run() and stream()
   may be under way on the same orchestrator.  create_initial_state gives
   every call a RunState of its own, and a stage writes nothing but the
   RunState it was handed, so of the other calls' steps only those on the
   shared Monitor can meet the followed run. *)

\* The pipeline_id of the other call.
OtherId == pipeline_id + 1

\* The followed run is configured as the orchestrator is.
ConcurrentInit ==
    /\ Init
    /\ self_config # EmptyDict
    /\ validator_config = EmptyDict
    /\ config = self_config

\* The other call, a run() followed from its start through its first stage
\* to its return.
OtherRunNext ==
    \/ RunCalled(OtherId)
    \/ /\ OtherId \in DOMAIN metrics.pipelines
       /\ metrics.pipelines[OtherId].agents = EmptyDict
       /\ StageStarted(OtherId, "planner")
    \/ StageReturned(OtherId)
    \/ StageRaised(OtherId)
    \/ RunReturned(OtherId)

ConcurrentNext == Next \/ OtherRunNext

ConcurrentSpec == ConcurrentInit /\ [][ConcurrentNext]_vars

----------------------------------------------------------------------------
(* traffic-shifter.py: the handlers.  One call of lambda_handler is one
   step; of the AWS calls a handler makes at most one raises ClientError. *)

\* save_deployment_state: the item put_item writes.
Item(state) ==
    [deployment_id |-> state.deployment_id,
     timestamp |-> state.last_update,
     status |-> state.status,
     state_data |-> state]

Key(item) ==
    IF table_key = "deployment_id"
      THEN <<item.deployment_id>>
      ELSE <<item.deployment_id, item.timestamp>>

\* put_item replaces the item that has the same key.
save_deployment_state(t, state) ==
    {i \in t : Key(i) # Key(Item(state))} \cup {Item(state)}

\* get_latest_deployment_state: the state_data of the newest item whose
\* status is in_progress; no element when there is none.
LatestStates ==
    LET in_progress == {i \in table : i.status = "in_progress"}
    IN  {i.state_data :
            i \in {j \in in_progress :
                      \A k \in in_progress : k.timestamp <= j.timestamp}}

\* What a handler leaves: the listener, the table, the status it returns
\* ("error" for statusCode 500) and the ClientErrors it met.
Outcome(l, t, st, e) ==
    [listener |-> l, table |-> t, status |-> st, errors |-> e]

\* The outcomes of a call that comes after a ClientError elsewhere in the
\* handler: those that meet no further one.
After(outcomes) ==
    {[o EXCEPT !.errors = 1] : o \in {x \in outcomes : x.errors = 0}}

rollback_canary_deployment ==
    {Outcome(listener, table, "error", 1)}
    \cup (IF LatestStates = {}
            THEN {Outcome(listener, table, "error", 0)}
            ELSE {})
    \cup UNION {
           {Outcome(Forward(0),
                    save_deployment_state(
                        table, [state EXCEPT !.status = "rolled_back"]),
                    "rolled_back", 0),
            Outcome(Forward(0), table, "rolled_back", 1),
            Outcome(listener, table, "error", 1)} :
           state \in LatestStates}

\* check_canary_health found an alarm in ALARM, or describe_alarms raised.
Unhealthy(raise_outcome) ==
    {Outcome(listener, table, "error", 1)}
    \cup (IF alarm
            THEN IF auto_rollback
                   THEN rollback_canary_deployment
                   ELSE {raise_outcome}
            ELSE {})
    \cup (IF auto_rollback
            THEN After(rollback_canary_deployment)
            ELSE {[raise_outcome EXCEPT !.errors = 1]})

complete_canary_deployment ==
    {Outcome(listener, table, "error", 1)}
    \cup (IF LatestStates = {}
            THEN {Outcome(listener, table, "error", 0)}
            ELSE {})
    \cup UNION {
           (Unhealthy(Outcome(listener, table, "error", 0))
              \ {Outcome(listener, table, "error", 1)})
           \cup (IF alarm
                   THEN {}
                   ELSE {Outcome(Forward(100),
                                 save_deployment_state(
                                     table,
                                     [state EXCEPT !.status = "completed"]),
                                 "completed", 0),
                         Outcome(Forward(100), table, "completed", 1),
                         Outcome(listener, table, "error", 1)}) :
           state \in LatestStates}

progress_canary_deployment ==
    {Outcome(listener, table, "no_active_deployment", 1)}
    \cup (IF LatestStates = {}
            THEN {Outcome(listener, table, "no_active_deployment", 0)}
            ELSE {})
    \cup UNION {
           IF now - state.last_update < 60 * STAGE_DURATION_MINUTES
             THEN {Outcome(listener, table, "waiting", 0)}
             ELSE (Unhealthy(Outcome(listener, table, "unhealthy", 0))
                     \ {Outcome(listener, table, "error", 1)})
                  \cup (IF alarm
                          THEN {}
                          ELSE LET next_stage == state.current_stage + 1
                               IN  IF next_stage >= Len(CANARY_STAGES)
                                     THEN complete_canary_deployment
                                     ELSE {Outcome(
                                             Forward(CANARY_STAGES[next_stage + 1]),
                                             save_deployment_state(
                                               table,
                                               [state EXCEPT
                                                  !.current_stage = next_stage,
                                                  !.last_update = now]),
                                             "progressed", 0),
                                           Outcome(
                                             Forward(CANARY_STAGES[next_stage + 1]),
                                             table, "progressed", 1),
                                           Outcome(listener, table,
                                                   "error", 1)}) :
           state \in LatestStates}

start_canary_deployment(deployment_id) ==
    LET state(current_config) ==
            [deployment_id |-> deployment_id,
             status |-> "in_progress",
             current_stage |-> 0,
             last_update |-> now,
             previous_config |-> current_config]
    IN  {Outcome(Forward(CANARY_STAGES[1]),
                 save_deployment_state(table, state(listener)),
                 "started", 0),
         \* describe_listeners raised: get_listener_rules returns {}
         Outcome(Forward(CANARY_STAGES[1]),
                 save_deployment_state(table, state(EmptyDict)),
                 "started", 1),
         \* put_item raised
         Outcome(Forward(CANARY_STAGES[1]), table, "started", 1),
         \* modify_listener raised
         Outcome(listener,
                 save_deployment_state(
                     save_deployment_state(table, state(listener)),
                     [state(listener) EXCEPT !.status = "failed"]),
                 "error", 1)}

\* lambda_handler with the outcome o of the function the action selects.
lambda_handler(action, o) ==
    /\ aws_errors + o.errors <= MaxAwsErrors
    /\ listener' = o.listener
    /\ table' = o.table
    /\ response' = [action |-> action, status |-> o.status]
    /\ aws_errors' = aws_errors + o.errors
    /\ starts' = IF action = "start" THEN starts + 1 ELSE starts
    /\ UNCHANGED <<walkVars, metrics, calls, resets, table_key, now,
                   alarm, auto_rollback>>

\* A start event is sent only while the table shows no deployment in
\* progress.
Start ==
    /\ LatestStates = {}
    /\ starts < MaxStarts
    /\ \E deployment_id \in DeploymentIds :
          \E o \in start_canary_deployment(deployment_id) :
              lambda_handler("start", o)

Progress ==
    \E o \in progress_canary_deployment : lambda_handler("progress", o)

Complete ==
    \E o \in complete_canary_deployment : lambda_handler("complete", o)

Rollback ==
    \E o \in rollback_canary_deployment : lambda_handler("rollback", o)

\* Time passes between two calls of the Lambda.
Tick ==
    /\ now < MaxTicks * TickSeconds
    /\ now' = now + TickSeconds
    /\ UNCHANGED <<walkVars, metrics, calls, resets, listener, table,
                   table_key, alarm, auto_rollback, response, aws_errors,
                   starts>>

\* CloudWatch moves an alarm into or out of state ALARM.
AlarmChange ==
    /\ alarm' = ~alarm
    /\ UNCHANGED <<walkVars, metrics, calls, resets, listener, table,
                   table_key, now, auto_rollback, response, aws_errors,
                   starts>>

CanaryInit ==
    /\ NoWalk
    /\ metrics = EmptyMetrics
    /\ calls = [id \in PipelineIds |-> NoCall]
    /\ resets = 0
    /\ listener \in ListenerConfigs
    /\ table = {}
    /\ table_key \in TableKeys
    /\ now = 0
    /\ alarm = FALSE
    /\ auto_rollback \in BOOLEAN
    /\ response = NoResponse
    /\ aws_errors = 0
    /\ starts = 0

CanaryNext ==
    \/ Start
    \/ Progress
    \/ Complete
    \/ Rollback
    \/ Tick
    \/ AlarmChange

CanarySpec == CanaryInit /\ [][CanaryNext]_vars

----------------------------------------------------------------------------
(* Properties *)

NeedsRetry == Get(intermediate_results, "needs_retry", FALSE)

\* The Validator has just computed a score and the Router decides next.
AfterAttempt == node = "router" /\ attempt.ran

\* The Synthesizer's recorded output has an actionable or a next-step item.
SynthesisHasItems ==
    /\ "synthesis" \in DOMAIN intermediate_results
    /\ \/ intermediate_results["synthesis"].actionable_items > 0
       \/ intermediate_results["synthesis"].next_steps > 0

FailedWithBudget ==
    /\ AfterAttempt
    /\ ~ValidatorPassed(attempt.score)
    /\ attempt.retry_count < ValidatorMaxRetries

RoutingRule ==
    LET validated == "validation" \in DOMAIN intermediate_results
        passedFlag == validated /\
                        "passed" \in DOMAIN intermediate_results["validation"]
    IN  CASE NeedsRetry /\ retry_count < RouterMaxRetries -> "researcher"
          [] ~(NeedsRetry /\ retry_count < RouterMaxRetries)
             /\ (passedFlag => intermediate_results["validation"].passed)
             /\ SynthesisHasItems -> "executor"
          [] OTHER -> "end"

\* C6: for every RunState the routing decision is the first matching rule
\* of (1) needs_retry set and retry_count < maxRetries -> "researcher",
\* (2) `passed` true or absent and the synthesis has items -> "executor",
\* (3) otherwise "end"; the Router's recorded decision is that value.
C6_RoutingIsFirstMatch ==
    /\ route_after_validation = RoutingRule
    /\ route_after_validation \in {"researcher", "executor", "end"}
    /\ last_decision # None =>
          /\ last_decision \in {"researcher", "executor", "end"}
          /\ node = Target(last_decision)

\* C6 witness: the Router decided "executor" although needs_retry was set,
\* because the retry budget was exhausted (rule 1 did not match).
C6_Witness ==
    /\ last_decision = "executor"
    /\ NeedsRetry
    /\ retry_count >= RouterMaxRetries
    /\ node = "executor"

\* C7: in every reachable RunState final_result is non-null if and only if
\* status is Completed.
C7_FinalResultIffCompleted ==
    (final_result # None) <=> (status = "completed")

\* C8: in every run in which no exception escaped a stage (and every
\* Monitor recording call returned), run() returns a result structure and
\* does not raise.
C8_RunAlwaysReturns ==
    (defects = 0 /\ monitor_failures = 0) => (pc # "raised")

\* C9: when an exception escapes a stage (and the Monitor records it) the
\* wrapper appends one entry to errors and sets status Failed, and
\* afterwards no further node is visited.
C9_DefectHaltsWalk ==
    [][ /\ (defects' > defects /\ monitor_failures' = monitor_failures) =>
              /\ Len(errors') = Len(errors) + 1
              /\ status' = "failed"
        /\ (defects > 0) => (visits' = visits) ]_vars

\* C10: after an executor-level defect the final RunState has status Failed
\* and non-empty errors, and the result's success flag is false.
C10_DefectLeavesRunFailed ==
    (defects > 0 /\ pc \in {"returned", "done"}) =>
        /\ status = "failed"
        /\ errors # <<>>
        /\ result.returned => ~result.success

\* C11: a business failure inside a stage's own handler appends exactly one
\* entry to errors and leaves the stage's StageState Failed; the run status
\* is not changed by it and the walk continues with the stage's successor.
C11_BusinessFailureContinues ==
    [][ (/\ faults' > faults
         /\ defects' = defects
         /\ monitor_failures' = monitor_failures) =>
            /\ errors' = Append(errors, node)
            /\ agent_states'[node] = "failed"
            /\ status' = status
            /\ pc' = "walking"
            /\ node' = Successor(node) ]_vars

\* C11 witness: the Researcher failed in its own handler; its entry is
\* Failed, the run is not Failed and the Analyzer is the next node.
C11_Witness ==
    /\ errors = <<"researcher">>
    /\ agent_states["researcher"] = "failed"
    /\ defects = 0
    /\ monitor_failures = 0
    /\ status = "pending"
    /\ pc = "walking"
    /\ node = "analyzer"

\* C12: a Monitor recording call that raises changes nothing of the run:
\* the step neither raises to the caller of run() nor leaves a status other
\* than the one the step leaves when the call returns.
C12_MonitorFailureIsSwallowed ==
    [][ (monitor_failures' > monitor_failures /\ defects' = defects) =>
            /\ pc' # "raised"
            /\ (node # END) => (status' = status) ]_vars

C14_OneRetryBound ==
    (node \in {"validator", "router"}) =>
        (RouterMaxRetries = ValidatorMaxRetries)

TerminalEntries ==
    {a \in AgentNames : agent_states[a] \in {"completed", "failed", "skipped"}}

Entries == {a \in AgentNames : agent_states[a] # "absent"}

C18_MessagesAppendOnly ==
    [][ /\ Len(messages') >= Len(messages)
        /\ SubSeq(messages', 1, Len(messages)) = messages ]_vars

\* C18 witness: the research chain was re-entered on a retry and left its
\* messages after those of the first pass, one stage having failed without
\* a message in between.
C18_Witness ==
    /\ Len(messages) >= 5
    /\ messages[1] = "researcher"
    /\ researcher_returns > 0
    /\ errors # <<>>
    /\ node = "router"

\* C20: every run that started at the Planner and reached the Terminal node
\* without an exception escaping a stage has executed Researcher, Analyzer,
\* Synthesizer and Validator; the Router's first decision after the Planner
\* is "researcher".
C20_ResearchChainAlwaysRuns ==
    /\ (/\ node = END
        /\ defects = 0
        /\ monitor_failures = 0
        /\ completed_steps # <<>>
        /\ completed_steps[1] = "planner") =>
            \A a \in {"researcher", "analyzer", "synthesizer", "validator"} :
                \E i \in 1..Len(completed_steps) : completed_steps[i] = a
    /\ (node = "router" /\ current_step = "planner") =>
            (route_after_validation = "researcher")

\* C21: whenever a stage's execute returns (the wrapper then stamps
\* completed_steps), the stage's entry is Completed, Failed or Skipped,
\* never Running; a collaborator failure makes execute return, not raise.
C21_ExecuteReturnsTerminal ==
    [][ /\ (Len(completed_steps') > Len(completed_steps)) =>
              agent_states'[node] \in {"completed", "failed", "skipped"}
        /\ (faults' > faults /\ defects' = defects) =>
              /\ Len(completed_steps') = Len(completed_steps) + 1
              /\ agent_states'[node] = "failed" ]_vars

\* C21 witness: the Executor found no action, recorded Skipped and
\* returned, after another stage had failed on its collaborator.
C21_Witness ==
    /\ agent_states["executor"] = "skipped"
    /\ current_step = "executor"
    /\ node = "reviewer"
    /\ faults > 0
    /\ defects = 0

RunState ==
    <<config, retry_count, intermediate_results, final_result, status,
      errors, completed_steps, current_step, agent_states, messages>>

C25_OutcomeRecordedOnce ==
    [][ (/\ \/ Len(completed_steps') > Len(completed_steps)
            \/ defects' > defects
         /\ monitor_failures' = monitor_failures) =>
            LET before == metrics.agents[node]
                after  == metrics'.agents[node]
                failed == \/ agent_states'[node] = "failed"
                          \/ defects' > defects
            IN  /\ after.executions = before.executions + 1
                /\ after.failures =
                      before.failures + (IF failed THEN 1 ELSE 0)
                /\ after.successes =
                      before.successes + (IF failed THEN 0 ELSE 1) ]_vars

\* C26: every run that run() or stream() registered with the Monitor is
\* recorded as finished once the call is over: its record has status
\* "success" or "failed" and an end time; and while no call is under way
\* total_pipelines = total_successes + total_failures.  Stated for the
\* behaviours in which the metrics are never reset.
C26_EveryRunRecordedFinished ==
    (resets = 0) =>
        /\ \A id \in PipelineIds :
              calls[id].ended =>
                  /\ id \in DOMAIN metrics.pipelines
                  /\ metrics.pipelines[id].status \in {"success", "failed"}
                  /\ metrics.pipelines[id].end_time
        /\ (\A id \in PipelineIds :
                calls[id].method = "none" \/ calls[id].ended)
              => metrics.total_pipelines
                   = metrics.total_successes + metrics.total_failures

\* C27: for every stage name successes + failures <= executions, whatever
\* the interleaving of record_agent_start, record_agent_completion,
\* record_agent_error and reset_metrics.
C27_OutcomesWithinExecutions ==
    \A a \in AgentNames :
        metrics.agents[a].successes + metrics.agents[a].failures
            <= metrics.agents[a].executions

\* The Monitor's records of the calls other than the followed one.
OtherRecords(m) ==
    [id \in DOMAIN m.pipelines \ {pipeline_id} |-> m.pipelines[id]]

C29_ProgressIsGuarded ==
    [][ (response'.action = "progress"
           /\ listener'.canary > listener.canary) =>
          \E state \in LatestStates :
              /\ state.status = "in_progress"
              /\ now - state.last_update >= 60 * STAGE_DURATION_MINUTES
              /\ ~alarm
              /\ IF state.current_stage + 1 < Len(CANARY_STAGES)
                    THEN /\ listener'
                              = Forward(CANARY_STAGES[state.current_stage + 2])
                         /\ \E next \in LatestStates' :
                               next.current_stage = state.current_stage + 1
                    ELSE /\ listener' = Forward(100)
                         /\ \E i \in table' :
                               /\ i.deployment_id = state.deployment_id
                               /\ i.status = "completed" ]_vars

\* C30: after a successful rollback (the handler returned rolled_back and
\* the deployment is stored with that status) the listener forwards as the
\* configuration that start captured as previous_config did: the same
\* weights for the canary and for production.  Stated for the behaviours
\* in which no AWS call has failed.
C30_RollbackRestoresPrevious ==
    (aws_errors = 0 /\ response.status = "rolled_back") =>
        LET rolled == {i \in table : i.status = "rolled_back"}
        IN  \A i \in rolled :
                (\A j \in rolled : j.timestamp <= i.timestamp)
                    => /\ listener.canary
                            = i.state_data.previous_config.canary
                       /\ listener.production
                            = i.state_data.previous_config.production

============================================================================
